---- MODULE Spec2Model ----
(***************************************************************************)
(* rs_translation_check (src/src/main.rs): a checker of per-language JSON  *)
(* translation catalogs against the base language "fr".                    *)
(*                                                                         *)
(* Text is modelled as a sequence of one-character strings, so that the    *)
(* regular expression of extract_variables, the dot-joining of             *)
(* flatten_json and the substring test of extract_keys_from_content are    *)
(* computed character by character, as the code computes them.             *)
(***************************************************************************)
EXTENDS Integers, Sequences, FiniteSets, TLC

(***************************************************************************)
(* Generic helpers.                                                        *)
(***************************************************************************)
Range(s) == {s[i] : i \in 1..Len(s)}

\* All sequences over S of length 0..n.
SeqsUpTo(S, n) == UNION {[1..k -> S] : k \in 0..n}

\* All orderings (sequences without repetition) of the finite set S.
Perms(S) == {s \in [1..Cardinality(S) -> S] : Range(s) = S}

\* Insertion into a map (HashMap::insert, DashMap::insert): overwrites.
MapInsert(m, k, v) == [x \in DOMAIN m \cup {k} |-> IF x = k THEN v ELSE m[x]]

EmptyMap == [x \in {} |-> {}]

(***************************************************************************)
(* extract_variables: the matches of \{(\w+)} in a text.                   *)
(***************************************************************************)
\* The characters of the model that \w matches (letters, digits, underscore).
RECURSIVE WordEnd(_, _)
WordChars == {"n", "m", "N", "x", "a", "b", "c", "d", "_", "1"}

IsWordChar(c) == c \in WordChars

WordEndOne(text, i) ==
    IF i <= Len(text) /\ IsWordChar(text[i]) THEN i + 1 ELSE i

\* The first position >= i of text that holds no word character (Len+1 if none):
\* where the greedy \w+ stops.
WordEnd(text, i) ==
    IF i <= Len(text) /\ IsWordChar(text[i]) THEN WordEnd(text, i + 1) ELSE i

\* captures_iter from position i: the leftmost match is taken first and the scan
\* resumes after it; a position where no match starts is skipped.
RECURSIVE CapturesFrom(_, _)
CapturesFrom(text, i) ==
    IF i > Len(text) THEN {}
    ELSE IF text[i] = "{"
         THEN LET j == WordEnd(text, i + 1)
              IN  IF j > i + 1 /\ j <= Len(text) /\ text[j] = "}"
                  THEN {SubSeq(text, i + 1, j - 1)} \cup CapturesFrom(text, j + 1)
                  ELSE CapturesFrom(text, i + 1)
         ELSE CapturesFrom(text, i + 1)

extract_variables(text) == CapturesFrom(text, 1)

(***************************************************************************)
(* flatten_json.  A parsed JSON document is a map from the path of each    *)
(* leaf (a sequence of object keys) to the leaf; every node above a leaf   *)
(* is an object.  A document without leaves is the empty object.           *)
(***************************************************************************)
StringLeaf(t) == [kind |-> "string", text |-> t]
OtherLeaf == [kind |-> "other", text |-> <<>>]

IsPrefixOf(p, q) == Len(p) <= Len(q) /\ SubSeq(q, 1, Len(p)) = p

\* The keys of the object at path p (Value::Object(map)).
ChildKeys(doc, p) ==
    {q[Len(p) + 1] : q \in {r \in DOMAIN doc : IsPrefixOf(p, r) /\ Len(r) > Len(p)}}

\* The keys of S in the order of iteration `ord` (a sequence of object keys).
RECURSIVE InOrder(_, _)
InOrder(S, ord) ==
    IF ord = <<>> THEN <<>>
    ELSE IF Head(ord) \in S THEN <<Head(ord)>> \o InOrder(S, Tail(ord))
         ELSE InOrder(S, Tail(ord))

JoinKeyNoPrefix(curr_prefix, key) == key

\* Lines 47-51.
JoinKey(curr_prefix, key) ==
    IF curr_prefix = <<>> THEN key ELSE curr_prefix \o <<".">> \o key

\* The while loop of flatten_json: stack entries are (prefix, node), the node
\* given by its path in doc.
RECURSIVE FlattenLoop(_, _, _, _)
FlattenLoop(doc, ord, stack, output) ==
    IF stack = <<>> THEN output
    ELSE LET top  == stack[Len(stack)]
             rest == SubSeq(stack, 1, Len(stack) - 1)
             curr_prefix == top[1]
             path == top[2]
         IN  IF path \notin DOMAIN doc
             THEN \* Value::Object: push every child
                  LET keys == InOrder(ChildKeys(doc, path), ord)
                      pushed == [i \in 1..Len(keys) |->
                                   <<JoinKey(curr_prefix, keys[i]), path \o <<keys[i]>> >>]
                  IN  FlattenLoop(doc, ord, rest \o pushed, output)
             ELSE IF doc[path].kind = "string"
                  THEN FlattenLoop(doc, ord, rest,
                                   MapInsert(output, curr_prefix, doc[path].text))
                  ELSE FlattenLoop(doc, ord, rest, output)

flatten_json(doc, ord, prefix, output) ==
    FlattenLoop(doc, ord, << <<prefix, <<>> >> >>, output)

(***************************************************************************)
(* The usage scan.                                                         *)
(***************************************************************************)
StartsWith(content, key) ==
    Len(key) <= Len(content) /\ SubSeq(content, 1, Len(key)) = key

\* str::contains
Contains(content, key) ==
    \E i \in 0..(Len(content) - Len(key)) : SubSeq(content, i + 1, i + Len(key)) = key

extract_keys_at_start(content, base_keys) ==
    {key \in base_keys : StartsWith(content, key)}

extract_keys_from_content(content, base_keys) ==
    {key \in base_keys : Contains(content, key)}

\* A source file: whether fs::read_to_string succeeds, and the text on disk.
\* The partial results are unioned in the order `files` gives.
RECURSIVE process_files(_, _)
process_files(files, base_keys) ==
    IF files = <<>> THEN {}
    ELSE LET f == Head(files)
         IN  (IF f.readable THEN extract_keys_from_content(f.content, base_keys) ELSE {})
             \cup process_files(Tail(files), base_keys)

check_translations_usage(base_keys, files) ==
    base_keys \ process_files(files, base_keys)

(***************************************************************************)
(* get_translation_file                                                    *)
(***************************************************************************)
UnknownFile == "Unknown file"

get_translation_file(fm, lang, key) ==
    IF lang \in DOMAIN fm /\ key \in DOMAIN fm[lang] THEN fm[lang][key] ELSE UnknownFile

(***************************************************************************)
(* State.                                                                  *)
(***************************************************************************)
VARIABLES
    phase,          \* where main is: "load", "checking", "returned", "scanned", "exited", "panicked" ("idle": not run)
    disk,           \* the file system: language directory -> (file name -> parsed JSON)
    lang_folders,   \* main: the language directories found under base_path
    translations,   \* main: language -> (key -> value), the DashMap
    file_mapping,   \* main: language -> (key -> path), the DashMap
    base_lang,      \* check_translations: its base_lang argument
    unused_arg,     \* check_translations: its unused_keys argument
    base_keys,      \* check_translations: the local base_keys
    task,           \* check_translations: language -> position of its for_each closure
    local_errors,   \* check_translations: language -> the closure's local_errors
    has_errors,     \* check_translations: the shared AtomicBool
    out,            \* standard output: the findings printed so far, in order
    result,         \* main: has_errors, the value check_translations returned
    unused_keys,    \* main: the set check_translations_usage returned
    exit_code,      \* the argument of process::exit
    args,           \* a pure function under check: its arguments
    ret,            \* a pure function under check: its result
    fpc             \* a pure function under check: "idle" (none), "called", "done"

vars == <<phase, disk, lang_folders, translations, file_mapping, base_lang, unused_arg,
          base_keys, task, local_errors, has_errors, out, result, unused_keys,
          exit_code, args, ret, fpc>>

progVars == <<phase, disk, lang_folders, translations, file_mapping, base_lang, unused_arg,
              base_keys, task, local_errors, has_errors, out, result, unused_keys,
              exit_code>>

fnVars == <<args, ret, fpc>>

NoValue == "none"

\* exit_code before process::exit is called.
NoExit == 0 - 1

(***************************************************************************)
(* The file system the program runs on.                                    *)
(***************************************************************************)
\* The language directories that may exist under base_path.
Langs == {"fr", "en", "de"}

\* The JSON files that may exist in a language directory; glob yields them in
\* alphabetical order.
FileNames == <<"1.json", "2.json">>

TextNM == <<"{", "n", "}", "{", "m", "}">>
TextMNN == <<"{", "m", "}", " ", "{", "n", "}", "{", "n", "}">>
TextLower == <<"{", "n", "}">>
TextUpper == <<"{", "N", "}">>
TextPlain == <<"x">>

KeyA == <<"a">>
KeyB == <<"b">>
KeyC == <<"c">>
KeyD == <<"d">>
KeyE == <<"e">>
KeyBC == <<"b", ".", "c">>

\* {"a": "{n}{m}", "b": {"c": "{n}"}, "d": 7, "e": "x"}
DocOne == (<<KeyA>> :> StringLeaf(TextNM)) @@ (<<KeyB, KeyC>> :> StringLeaf(TextLower))
          @@ (<<KeyD>> :> OtherLeaf) @@ (<<KeyE>> :> StringLeaf(TextPlain))
\* {"a": "{m} {n}{n}", "b": {"c": "{N}"}, "d": "x"}
DocTwo == (<<KeyA>> :> StringLeaf(TextMNN)) @@ (<<KeyB, KeyC>> :> StringLeaf(TextUpper))
          @@ (<<KeyD>> :> StringLeaf(TextPlain))

\* The parsed contents a translation file may have.
FileDocs == {DocOne, DocTwo}

\* The iteration order of serde_json's Map (a BTreeMap: sorted by key).
MapOrder == <<KeyA, KeyB, KeyC, KeyD, KeyE>>

\* What one language directory may hold: some of FileNames, each with the
\* document serde_json parses from it (a file that cannot be read or parsed
\* ends the program at lines 241-242, before anything is checked).
DirContents ==
    UNION {[S -> FileDocs] : S \in SUBSET Range(FileNames)}

PathOf(lang, name) == lang \o "/" \o name

(***************************************************************************)
(* main, lines 231-256: the catalog is loaded, one task per language.      *)
(***************************************************************************)
MergeFileKeepPath(maps, flattened, path) ==
    [values |-> [k \in DOMAIN maps.values \cup DOMAIN flattened |->
                    IF k \in DOMAIN flattened THEN flattened[k] ELSE maps.values[k]],
     paths  |-> [k \in DOMAIN maps.paths \cup DOMAIN flattened |->
                    IF k \in DOMAIN maps.paths THEN maps.paths[k] ELSE path]]

\* The body of `for (key, value) in flattened` over a whole file: both maps
\* are written under the same key.
MergeFile(maps, flattened, path) ==
    [values |-> [k \in DOMAIN maps.values \cup DOMAIN flattened |->
                    IF k \in DOMAIN flattened THEN flattened[k] ELSE maps.values[k]],
     paths  |-> [k \in DOMAIN maps.paths \cup DOMAIN flattened |->
                    IF k \in DOMAIN flattened THEN path ELSE maps.paths[k]]]

\* The loop over glob's entries, from the i-th file name on.
RECURSIVE LoadFiles(_, _, _, _)
LoadFiles(lang, dir, i, maps) ==
    IF i > Len(FileNames) THEN maps
    ELSE IF FileNames[i] \in DOMAIN dir
         THEN LoadFiles(lang, dir, i + 1,
                        MergeFile(maps,
                                  flatten_json(dir[FileNames[i]], MapOrder, <<>>, EmptyMap),
                                  PathOf(lang, FileNames[i])))
         ELSE LoadFiles(lang, dir, i + 1, maps)

LoadLang(lang) ==
    /\ phase = "load"
    /\ lang \in lang_folders
    /\ lang \notin DOMAIN translations
    /\ LET maps == LoadFiles(lang, disk[lang], 1,
                              [values |-> EmptyMap, paths |-> EmptyMap])
       IN  /\ translations' = MapInsert(translations, lang, maps.values)
           /\ file_mapping' = MapInsert(file_mapping, lang, maps.paths)
    /\ UNCHANGED <<phase, disk, lang_folders, base_lang, unused_arg, base_keys, task,
                   local_errors, has_errors, out, result, unused_keys, exit_code>>
    /\ UNCHANGED fnVars

FnIdle == args = NoValue /\ ret = NoValue /\ fpc = "idle"

Init ==
    /\ phase = "load"
    /\ lang_folders \in SUBSET Langs
    /\ disk \in [lang_folders -> DirContents]
    /\ translations = EmptyMap
    /\ file_mapping = EmptyMap
    /\ base_lang = NoValue
    /\ unused_arg = {}
    /\ base_keys = {}
    /\ task = EmptyMap
    /\ local_errors = EmptyMap
    /\ has_errors = FALSE
    /\ out = <<>>
    /\ result = FALSE
    /\ unused_keys = {}
    /\ exit_code = NoExit
    /\ FnIdle

(***************************************************************************)
(* check_translations, lines 115-208.                                      *)
(*                                                                         *)
(* Standard output is modelled as the sequence of the groups of findings   *)
(* printed: one group per loop of one closure, holding the set of findings *)
(* the loop printed (the order inside one loop is that of a HashSet and is *)
(* left open).  The headers and colours are not modelled.                  *)
(***************************************************************************)
Group(lang, kind, findings) == [lang |-> lang, kind |-> kind, findings |-> findings]

\* println! of a group: nothing is printed for an empty loop.
Emit(o, lang, kind, findings) ==
    IF findings = {} THEN o ELSE Append(o, Group(lang, kind, findings))

KeyFinding(lang, key) ==
    [key |-> key, file |-> get_translation_file(file_mapping, lang, key)]

MismatchFinding(lang, key, base_vars, other_vars) ==
    [key |-> key, expected |-> base_vars, found |-> other_vars,
     base_file |-> get_translation_file(file_mapping, base_lang, key),
     file |-> get_translation_file(file_mapping, lang, key)]

\* Line 121: the base translation is looked up under the literal "fr".
BaseTranslationLang == "fr"

\* Lines 121-125, entered with the arguments (bl, unused): the unwrap of line 121
\* panics when the catalog has no "fr" entry; otherwise one closure per entry.
EnterCheck(bl, unused) ==
    /\ base_lang' = bl
    /\ unused_arg' = unused
    /\ IF BaseTranslationLang \notin DOMAIN translations
       THEN /\ phase' = "panicked"
            /\ UNCHANGED <<base_keys, task, local_errors>>
       ELSE /\ phase' = "checking"
            /\ base_keys' = DOMAIN translations[BaseTranslationLang]
            /\ task' = [l \in DOMAIN translations |-> "missing"]
            /\ local_errors' = [l \in DOMAIN translations |-> FALSE]
    /\ has_errors' = FALSE
    /\ UNCHANGED <<disk, lang_folders, translations, file_mapping, out, result,
                   unused_keys, exit_code>>
    /\ UNCHANGED fnVars

Loaded == phase = "load" /\ DOMAIN translations = lang_folders

\* main, lines 258-263.
MainCallsCheck == Loaded /\ EnterCheck("fr", {})

\* Lines 133-135.
other_keys(lang) == DOMAIN translations[lang]

missing_keys_swapped(lang) == other_keys(lang) \ base_keys

missing_keys(lang) == base_keys \ other_keys(lang)

extra_keys(lang) == other_keys(lang) \ base_keys

StepAfterSwapped(block) ==
    CASE block = "missing" -> "mismatch"
      [] block = "mismatch" -> "extra"
      [] block = "extra" -> "unused"
      [] block = "unused" -> "store"
      [] block = "store" -> "done"

\* The order of the blocks of the closure, lines 139-204: what runs after `block`.
StepAfter(block) ==
    CASE block = "missing" -> "extra"
      [] block = "extra" -> "mismatch"
      [] block = "mismatch" -> "unused"
      [] block = "unused" -> "store"
      [] block = "store" -> "done"

TaskFrame == UNCHANGED <<phase, disk, lang_folders, translations, file_mapping, base_lang,
                         unused_arg, base_keys, result, unused_keys, exit_code>>
             /\ UNCHANGED fnVars

\* Lines 128-146: the base language returns at once; any other prints its
\* missing keys.
TaskMissing(lang) ==
    /\ phase = "checking"
    /\ lang \in DOMAIN task
    /\ task[lang] = "missing"
    /\ IF lang = base_lang
       THEN /\ task' = [task EXCEPT ![lang] = "done"]
            /\ UNCHANGED <<out, local_errors>>
       ELSE /\ out' = Emit(out, lang, "missing",
                           {KeyFinding(lang, k) : k \in missing_keys(lang)})
            /\ local_errors' = [local_errors EXCEPT ![lang] = missing_keys(lang) # {}]
            /\ task' = [task EXCEPT ![lang] = StepAfter("missing")]
    /\ UNCHANGED has_errors
    /\ TaskFrame

\* Lines 148-155.
TaskExtra(lang) ==
    /\ phase = "checking"
    /\ lang \in DOMAIN task
    /\ task[lang] = "extra"
    /\ out' = Emit(out, lang, "extra", {KeyFinding(lang, k) : k \in extra_keys(lang)})
    /\ local_errors' = [local_errors EXCEPT ![lang] = @ \/ extra_keys(lang) # {}]
    /\ task' = [task EXCEPT ![lang] = StepAfter("extra")]
    /\ UNCHANGED has_errors
    /\ TaskFrame

\* Line 159: translations.get(base_lang).unwrap().get(key).unwrap() panics when
\* base_lang has no entry or the entry has no such key.
BaseLookupPanics(key) ==
    \/ base_lang \notin DOMAIN translations
    \/ key \notin DOMAIN translations[base_lang]

\* The length of the longest prefix of `order` whose lookups do not panic.
RECURSIVE Survives(_)
Survives(order) ==
    IF order = <<>> \/ BaseLookupPanics(Head(order)) THEN 0
    ELSE 1 + Survives(Tail(order))

VarsDifferBySize(base_vars, other_vars) ==
    Cardinality(base_vars) # Cardinality(other_vars)

\* Line 162.
VarsDiffer(base_vars, other_vars) == base_vars # other_vars

\* Lines 157-188: the keys of the intersection are visited in some order, up to
\* the first one whose lookup panics.
TaskMismatch(lang) ==
    /\ phase = "checking"
    /\ lang \in DOMAIN task
    /\ task[lang] = "mismatch"
    /\ \E order \in Perms(base_keys \cap other_keys(lang)) :
          LET n == Survives(order)
              visited == {order[i] : i \in 1..n}
              found == {MismatchFinding(lang, k,
                                        extract_variables(translations[base_lang][k]),
                                        extract_variables(translations[lang][k])) :
                          k \in {x \in visited :
                                   VarsDiffer(extract_variables(translations[base_lang][x]),
                                              extract_variables(translations[lang][x]))}}
          IN  /\ out' = Emit(out, lang, "mismatch", found)
              /\ local_errors' = [local_errors EXCEPT ![lang] = @ \/ found # {}]
              /\ task' = [task EXCEPT ![lang] =
                            IF n < Len(order) THEN "panicked" ELSE StepAfter("mismatch")]
    /\ UNCHANGED has_errors
    /\ TaskFrame

\* Lines 190-199.
TaskUnused(lang) ==
    /\ phase = "checking"
    /\ lang \in DOMAIN task
    /\ task[lang] = "unused"
    /\ LET found == {KeyFinding(lang, k) : k \in unused_arg \cap other_keys(lang)}
       IN  /\ out' = Emit(out, lang, "unused", found)
           /\ local_errors' = [local_errors EXCEPT ![lang] = @ \/ found # {}]
    /\ task' = [task EXCEPT ![lang] = StepAfter("unused")]
    /\ UNCHANGED has_errors
    /\ TaskFrame

StoreFlagAlways(flag, local) == local

\* Lines 202-204: has_errors.store(true) only when the closure found an error.
StoreFlag(flag, local) == IF local THEN TRUE ELSE flag

TaskStore(lang) ==
    /\ phase = "checking"
    /\ lang \in DOMAIN task
    /\ task[lang] = "store"
    /\ has_errors' = StoreFlag(has_errors, local_errors[lang])
    /\ task' = [task EXCEPT ![lang] = StepAfter("store")]
    /\ UNCHANGED <<out, local_errors>>
    /\ TaskFrame

\* Lines 205-207: for_each returns when every closure has ended; a panic of a
\* closure is propagated to the caller, otherwise the flag is loaded and returned.
CheckReturns ==
    /\ phase = "checking"
    /\ \A l \in DOMAIN task : task[l] \in {"done", "panicked"}
    /\ IF \E l \in DOMAIN task : task[l] = "panicked"
       THEN phase' = "panicked" /\ UNCHANGED result
       ELSE phase' = "returned" /\ result' = has_errors
    /\ UNCHANGED <<disk, lang_folders, translations, file_mapping, base_lang, unused_arg,
                   base_keys, task, local_errors, has_errors, out, unused_keys,
                   exit_code>>
    /\ UNCHANGED fnVars

CheckStep ==
    \E lang \in Langs :
        \/ TaskMissing(lang)
        \/ TaskExtra(lang)
        \/ TaskMismatch(lang)
        \/ TaskUnused(lang)
        \/ TaskStore(lang)

(***************************************************************************)
(* main, lines 265-277: the usage scan and the exit code.                  *)
(***************************************************************************)
\* What a scanned source file may hold.
SourceTexts ==
    {<<"t", "(", "a", ")">>, <<"x", "b", ".", "c", "x">>, <<"d", "e">>, <<"b", "c">>}

SourceFiles == [readable : BOOLEAN, content : SourceTexts]

\* The most source files found under the scanned directory.
MaxSourceFiles == 2

\* Lines 265-275; line 270 unwraps the "fr" entry again.
MainScansUsage ==
    /\ phase = "returned"
    /\ \E files \in SeqsUpTo(SourceFiles, MaxSourceFiles) :
          unused_keys' = check_translations_usage(DOMAIN translations["fr"], files)
    /\ phase' = "scanned"
    /\ UNCHANGED <<disk, lang_folders, translations, file_mapping, base_lang, unused_arg,
                   base_keys, task, local_errors, has_errors, out, result, exit_code>>
    /\ UNCHANGED fnVars

\* Line 277.
MainExits ==
    /\ phase = "scanned"
    /\ exit_code' = IF result THEN 1 ELSE 0
    /\ phase' = "exited"
    /\ UNCHANGED <<disk, lang_folders, translations, file_mapping, base_lang, unused_arg,
                   base_keys, task, local_errors, has_errors, out, result, unused_keys>>
    /\ UNCHANGED fnVars

Next ==
    \/ \E lang \in Langs : LoadLang(lang)
    \/ MainCallsCheck
    \/ CheckStep
    \/ CheckReturns
    \/ MainScansUsage
    \/ MainExits

Spec == Init /\ [][Next]_vars

(***************************************************************************)
(* check_translations called by any caller: with any base_lang and any     *)
(* unused_keys, on a loaded catalog.                                       *)
(***************************************************************************)
CallBaseLangs == {"fr", "en"}
CallUnusedSets == {{}, {KeyA}}

AnyCallsCheck ==
    /\ Loaded
    /\ \E bl \in CallBaseLangs, unused \in CallUnusedSets : EnterCheck(bl, unused)

NextCall ==
    \/ \E lang \in Langs : LoadLang(lang)
    \/ AnyCallsCheck
    \/ CheckStep
    \/ CheckReturns

SpecCall == Init /\ [][NextCall]_vars

(***************************************************************************)
(* The pure functions, each applied to arguments drawn from bounded sets.  *)
(***************************************************************************)
ProgIdle ==
    /\ phase = "idle"
    /\ disk = EmptyMap
    /\ lang_folders = {}
    /\ translations = EmptyMap
    /\ file_mapping = EmptyMap
    /\ base_lang = NoValue
    /\ unused_arg = {}
    /\ base_keys = {}
    /\ task = EmptyMap
    /\ local_errors = EmptyMap
    /\ has_errors = FALSE
    /\ out = <<>>
    /\ result = FALSE
    /\ unused_keys = {}
    /\ exit_code = NoExit

\* extract_variables
ExtractAlphabet == {"{", "}", "n", "N", " "}
MaxTextLen == 6

InitExtract ==
    /\ ProgIdle
    /\ args \in SeqsUpTo(ExtractAlphabet, MaxTextLen)
    /\ ret = {}
    /\ fpc = "called"

CallExtract ==
    /\ fpc = "called"
    /\ ret' = extract_variables(args)
    /\ fpc' = "done"
    /\ UNCHANGED args
    /\ UNCHANGED progVars

SpecExtract == InitExtract /\ [][CallExtract]_vars

\* flatten_json
EmptyKey == <<>>
KeyAdotB == <<"a", ".", "b">>
FlattenKeys == {EmptyKey, KeyA, KeyB, KeyAdotB}
FlattenPaths == SeqsUpTo(FlattenKeys, 2)
FlattenLeaves == {StringLeaf(<<"x">>), StringLeaf(<<"y">>), OtherLeaf}
MaxLeaves == 2

\* No leaf lies under another leaf.
PrefixFree(S) == \A p, q \in S : IsPrefixOf(p, q) => p = q

FlattenDocs ==
    UNION {[S -> FlattenLeaves] :
             S \in {T \in SUBSET FlattenPaths : Cardinality(T) <= MaxLeaves /\ PrefixFree(T)}}

InitFlatten ==
    /\ ProgIdle
    /\ args \in FlattenDocs
    /\ ret = EmptyMap
    /\ fpc = "called"

\* The children of every object are visited in the order `ord` of the keys.
CallFlatten ==
    /\ fpc = "called"
    /\ \E ord \in Perms(FlattenKeys) : ret' = flatten_json(args, ord, <<>>, EmptyMap)
    /\ fpc' = "done"
    /\ UNCHANGED args
    /\ UNCHANGED progVars

SpecFlatten == InitFlatten /\ [][CallFlatten]_vars

\* check_translations_usage
UsageKeys == {KeyA, KeyBC, KeyD, KeyE}

InitUsage ==
    /\ ProgIdle
    /\ args \in [base_keys : SUBSET UsageKeys,
                 files : SeqsUpTo(SourceFiles, MaxSourceFiles)]
    /\ ret = {}
    /\ fpc = "called"

CallUsage ==
    /\ fpc = "called"
    /\ ret' = check_translations_usage(args.base_keys, args.files)
    /\ fpc' = "done"
    /\ UNCHANGED args
    /\ UNCHANGED progVars

SpecUsage == InitUsage /\ [][CallUsage]_vars

(***************************************************************************)
(* What the claims are stated with.                                        *)
(***************************************************************************)
\* The placeholder names of a text, stated without a scan: every {w} in it
\* with w one or more word characters.
PlaceholderNames(text) ==
    {SubSeq(text, i + 1, j - 1) :
        <<i, j>> \in {q \in (1..Len(text)) \X (1..Len(text)) :
                        /\ q[1] + 1 < q[2]
                        /\ text[q[1]] = "{"
                        /\ text[q[2]] = "}"
                        /\ \A k \in (q[1] + 1)..(q[2] - 1) : IsWordChar(text[k])}}

\* The positions of out that hold a group of findings about lang.
GroupsOf(lang) == {i \in 1..Len(out) : out[i].lang = lang}

\* The findings of a kind reported about lang so far.
Reported(lang, kind) ==
    UNION {out[i].findings : i \in {j \in GroupsOf(lang) : out[j].kind = kind}}

ReportedKeys(lang, kind) == {f.key : f \in Reported(lang, kind)}

Returned == phase \in {"returned", "scanned", "exited"}
Called == phase \in {"checking", "returned", "scanned", "exited"}

\* The languages of the catalog other than the base language.
NonBase == DOMAIN translations \ {base_lang}

BaseSpace == translations[base_lang]

\* C1: in a run whose catalog contains the base language, the keys reported
\* missing for a non-base language L are exactly those of the base KeySpace
\* that L lacks, the keys reported extra exactly those of L that the base
\* lacks (nothing else is ever reported, nothing is dropped once the diff has
\* run), and nothing is reported about the base language.
C1_DiffIsExact ==
    (Called /\ base_lang \in DOMAIN translations) =>
        /\ GroupsOf(base_lang) = {}
        /\ \A L \in NonBase :
              /\ ReportedKeys(L, "missing") \subseteq DOMAIN BaseSpace \ DOMAIN translations[L]
              /\ ReportedKeys(L, "extra") \subseteq DOMAIN translations[L] \ DOMAIN BaseSpace
              /\ (Returned \/ task[L] = "done") =>
                    /\ ReportedKeys(L, "missing") = DOMAIN BaseSpace \ DOMAIN translations[L]
                    /\ ReportedKeys(L, "extra") = DOMAIN translations[L] \ DOMAIN BaseSpace

\* A run that reported both missing and extra keys for one language, next to a
\* loaded base language.
C1_Witness ==
    /\ phase = "returned"
    /\ \E L \in NonBase :
          /\ ReportedKeys(L, "missing") # {}
          /\ ReportedKeys(L, "extra") # {}

\* C2: the value check_translations returns is true exactly when some
\* non-base language has a finding, whatever the interleaving of the
\* closures: a closure that found an error and has ended has set the flag for
\* good; and it is false when every language's KeySpace equals the base one.
C2_FlagIsTheOr ==
    /\ phase = "checking" =>
          \A L \in DOMAIN task : (task[L] = "done" /\ local_errors[L]) => has_errors
    /\ Returned =>
          /\ result <=> (\E L \in NonBase : GroupsOf(L) # {})
          /\ (\A L \in NonBase : translations[L] = BaseSpace) => ~result

\* Two non-base languages, one with findings and one identical to the base,
\* and the call returned true.
C2_Witness ==
    /\ phase = "returned"
    /\ result
    /\ \E L1, L2 \in NonBase :
          /\ GroupsOf(L1) # {}
          /\ translations[L2] = BaseSpace
          /\ GroupsOf(L2) = {}

\* The mismatches the placeholder comparison calls for, for language L.
ExpectedMismatches(L) ==
    {[key |-> k, expected |-> PlaceholderNames(BaseSpace[k]),
      found |-> PlaceholderNames(translations[L][k])] :
        k \in {x \in DOMAIN BaseSpace \cap DOMAIN translations[L] :
                 PlaceholderNames(BaseSpace[x]) # PlaceholderNames(translations[L][x])}}

ReportedMismatches(L) ==
    {[key |-> f.key, expected |-> f.expected, found |-> f.found] :
        f \in Reported(L, "mismatch")}

\* C3: for a non-base language L, a variable mismatch is reported for a key
\* exactly when the key is in both KeySpaces and the sets of placeholder
\* names of the two values differ; it carries the base set as expected and
\* L's set as found.
C3_MismatchIffSetsDiffer ==
    (Called /\ base_lang \in DOMAIN translations) =>
        \A L \in NonBase :
            /\ ReportedMismatches(L) \subseteq ExpectedMismatches(L)
            /\ (Returned \/ task[L] = "done") =>
                  ReportedMismatches(L) = ExpectedMismatches(L)

\* A language whose value for one shared key differs from the base value in
\* the order and repetition of the placeholders only (no mismatch) and whose
\* value for another differs in the case of a name (a mismatch).
C3_Witness ==
    /\ phase = "returned"
    /\ \E L \in NonBase :
          /\ KeyA \in DOMAIN BaseSpace \cap DOMAIN translations[L]
          /\ BaseSpace[KeyA] # translations[L][KeyA]
          /\ KeyA \notin ReportedKeys(L, "mismatch")
          /\ [key |-> KeyBC, expected |-> {<<"n">>}, found |-> {<<"N">>}]
                \in ReportedMismatches(L)

\* The dot-joined key of a leaf path, stated without the traversal.
RECURSIVE DotJoined(_)
DotJoined(path) ==
    IF path = <<>> THEN <<>>
    ELSE IF Len(path) = 1 THEN path[1]
         ELSE DotJoined(SubSeq(path, 1, Len(path) - 1)) \o <<".">> \o path[Len(path)]

StringPaths(doc) == {p \in DOMAIN doc : doc[p].kind = "string"}

\* The KeySpace a document stands for: each string leaf under its dot-joined path.
DeclaredKeySpace(doc) ==
    [k \in {DotJoined(p) : p \in StringPaths(doc)} |->
        doc[CHOOSE p \in StringPaths(doc) : DotJoined(p) = k].text]

\* The files of language L (positions in glob's order) that define key k.
Suppliers(L, k) ==
    {i \in 1..Len(FileNames) :
        /\ FileNames[i] \in DOMAIN disk[L]
        /\ k \in DOMAIN DeclaredKeySpace(disk[L][FileNames[i]])}

LastOf(S) == CHOOSE i \in S : \A j \in S : j <= i

\* C4: check_translations never fails partway: a panic happens only before
\* any language is diffed and any finding printed, it happens when base_lang
\* is not a key of the catalog, and it never happens when base_lang is one.
C4_NeverFailsPartway ==
    /\ phase = "panicked" =>
          /\ out = <<>>
          /\ \A L \in DOMAIN task : task[L] = "missing"
    /\ (base_lang # NoValue /\ base_lang \notin DOMAIN translations) =>
          /\ out = <<>>
          /\ \A L \in DOMAIN task : task[L] = "missing"
    /\ base_lang \in DOMAIN translations =>
          /\ phase # "panicked"
          /\ \A L \in DOMAIN task : task[L] # "panicked"

\* C5: when the run has ended, every base key the usage scan found unused
\* and a non-base language still defines has an unused-key finding for that
\* language, and the exit code is not zero.
C5_UnusedStillTranslatedIsReported ==
    phase = "exited" =>
        \A L \in NonBase : \A k \in unused_keys \cap DOMAIN translations[L] :
            /\ k \in ReportedKeys(L, "unused")
            /\ exit_code # 0

KindRank(kind) ==
    CASE kind = "missing" -> 1
      [] kind = "extra" -> 2
      [] kind = "mismatch" -> 3
      [] kind = "unused" -> 4

\* C8: in the output restricted to one language the findings come in the
\* order missing, extra, mismatch, unused, however the closures interleave.
C8_FixedOrderPerLanguage ==
    \A i, j \in 1..Len(out) :
        (i < j /\ out[i].lang = out[j].lang) =>
            KindRank(out[i].kind) <= KindRank(out[j].kind)

\* One language with findings of all four kinds, and findings of another
\* language printed in between.
C8_Witness ==
    \E L \in NonBase :
        /\ \A kind \in {"missing", "extra", "mismatch", "unused"} : Reported(L, kind) # {}
        /\ \E i, j, k \in 1..Len(out) :
              i < j /\ j < k /\ out[i].lang = L /\ out[k].lang = L /\ out[j].lang # L

\* C10: each language's FileIndex has the keys of its KeySpace and maps each
\* key to the last file (in the order of loading) that defines it, which is
\* the file the stored value is from; the file printed with a missing key is
\* always the "Unknown file" sentinel and the file printed with an extra key
\* is always a file of that language.
C10_FileIndexFollowsKeySpace ==
    /\ \A L \in DOMAIN translations :
          /\ DOMAIN file_mapping[L] = DOMAIN translations[L]
          /\ \A k \in DOMAIN translations[L] :
                /\ Suppliers(L, k) # {}
                /\ LET name == FileNames[LastOf(Suppliers(L, k))]
                   IN  /\ file_mapping[L][k] = PathOf(L, name)
                       /\ translations[L][k] = DeclaredKeySpace(disk[L][name])[k]
    /\ \A i \in 1..Len(out) :
          /\ out[i].kind = "missing" => \A f \in out[i].findings : f.file = UnknownFile
          /\ out[i].kind = "extra" =>
                \A f \in out[i].findings :
                    f.file \in {PathOf(out[i].lang, n) : n \in DOMAIN disk[out[i].lang]}

\* A language two of whose files define the same key with different values,
\* in a run that printed a missing key and an extra key.
C10_Witness ==
    /\ phase = "returned"
    /\ \E L \in DOMAIN translations : \E k \in DOMAIN translations[L] :
          /\ Cardinality(Suppliers(L, k)) = 2
          /\ \E i \in Suppliers(L, k) :
                DeclaredKeySpace(disk[L][FileNames[i]])[k] # translations[L][k]
    /\ \E i, j \in 1..Len(out) : out[i].kind = "missing" /\ out[j].kind = "extra"

\* The keys that occur in the text of none of the files that `counted` selects.
OccurInNone(keys, files, counted) ==
    {k \in keys : \A i \in 1..Len(files) : counted[i] => ~Contains(files[i].content, k)}

\* C6 as stated: check_translations_usage returns exactly the base keys that
\* occur as a substring in the content of none of the given files.
C6_UnusedAreKeysInNoFile ==
    fpc = "done" =>
        ret = OccurInNone(args.base_keys, args.files, [i \in 1..Len(args.files) |-> TRUE])

\* C6, amended: check_translations_usage returns exactly the base keys that
\* occur as a substring in the content of none of the given files that can be
\* read; a file that cannot be read is skipped.
C6_UnusedAreKeysInNoReadableFile ==
    fpc = "done" =>
        /\ ret \subseteq args.base_keys
        /\ ret = OccurInNone(args.base_keys, args.files,
                             [i \in 1..Len(args.files) |-> args.files[i].readable])

\* Two readable files, one holding a key inside a longer token; that key is
\* used and another base key is unused.
C6_Witness ==
    /\ fpc = "done"
    /\ Len(args.files) = 2
    /\ \A i \in 1..2 : args.files[i].readable
    /\ args.files[2].content = <<"x", "b", ".", "c", "x">>
    /\ {KeyA, KeyBC} \subseteq args.base_keys
    /\ KeyBC \notin ret
    /\ KeyA \in ret

\* Every object key of the document is non-empty and holds no dot.
WellKeyed(doc) ==
    \A p \in DOMAIN doc : \A i \in 1..Len(p) : p[i] # <<>> /\ "." \notin Range(p[i])

\* The result has one key per string leaf and the values of the string
\* leaves, and it is the result of every order of visit.
FlattenIsInjective ==
    /\ Cardinality(DOMAIN ret) = Cardinality(StringPaths(args))
    /\ {ret[k] : k \in DOMAIN ret} = {args[p].text : p \in StringPaths(args)}
    /\ \A ord \in Perms(FlattenKeys) : flatten_json(args, ord, <<>>, EmptyMap) = ret

\* C7 as stated: flatten_json maps the distinct string leaves of a document
\* to distinct dot-joined keys, whatever the order of visit; other leaves
\* give no key.
C7_FlattenInjective == fpc = "done" => FlattenIsInjective

\* C7, amended: the same for a document whose object keys are all non-empty
\* and hold no dot.
C7_FlattenInjectiveWellKeyed == (fpc = "done" /\ WellKeyed(args)) => FlattenIsInjective

\* A document with a nested string leaf and a top-level one, flattened.
C7_Witness ==
    /\ fpc = "done"
    /\ WellKeyed(args)
    /\ StringPaths(args) = {<<KeyA, KeyB>>, <<KeyB>>}
    /\ args[<<KeyA, KeyB>>] # args[<<KeyB>>]
    /\ DOMAIN ret = {KeyAdotB, KeyB}

\* C9: extract_variables returns exactly the names w of the occurrences of
\* {w}, w one or more word characters: repetitions collapse, and a brace that
\* is part of no such occurrence gives nothing.
C9_ExtractIsTheSetOfNames == fpc = "done" => ret = PlaceholderNames(args)

\* A text with the same placeholder twice.
C9_Witness ==
    /\ fpc = "done"
    /\ args = <<"{", "n", "}", "{", "n", "}">>
    /\ ret = {<<"n">>}

====
